---- MODULE Spec2Model ----
(***************************************************************************)
(* The transaction gateway of the admin dashboard                          *)
(* (src/app/api/transactions/route.ts): the GET, POST and DELETE handlers  *)
(* of /api/transactions in front of the hosted store; and two handlers of  *)
(* the dashboard's pages that talk to the store themselves: onSubmit of    *)
(* EditAkunForm and fetchNotifications of NotificationsPage.               *)
(*                                                                         *)
(* Encoding of JavaScript values.  A value that may be undefined/null is   *)
(* an option: {} is undefined/null, {v} is the value v.  A JSON body is a  *)
(* record of options, one per key the handler reads; "" and 0 are the      *)
(* present-but-falsy values of a string and of a number.                   *)
(***************************************************************************)
EXTENDS Integers, Sequences, FiniteSets, TLC

VARIABLES
    req,      \* req[r]: the request handled in slot r (handler position, input, response)
    ledger,   \* the rows of table transaksi, in the order get_all_transactions returns them
    saldo,    \* the balance of every savings and loan account, owned by the store
    nextId,   \* the store's id generator: number of the next row it creates
    akunTable,   \* the rows of table akun
    form,        \* EditAkunForm: props, field values, component state, handler position
    notifikasi,  \* the rows of table notifikasi
    page         \* NotificationsPage: the four lists, loading, the fetches in flight

\* the state of the gateway and the state of the two pages
routeVars == <<req, ledger, saldo, nextId>>
uiVars == <<akunTable, form, notifikasi, page>>

vars == <<req, ledger, saldo, nextId, akunTable, form, notifikasi, page>>

-----------------------------------------------------------------------------
(* Bounds of the model *)

MaxReq == 2       \* request slots that can be in flight together
MaxJumlah == 1    \* amounts in a request body range over -MaxJumlah..MaxJumlah
MaxCreate == 1    \* rows the store creates in one behaviour

Slots == 1..MaxReq

-----------------------------------------------------------------------------
(* JavaScript values *)

Null == {}
Some(v) == {v}
Val(o) == CHOOSE v \in o : TRUE

\* !x is false: a string that is present and not empty
TruthyStr(o) == o # {} /\ o # {""}
\* !x is false: a number that is present and not 0
TruthyNum(o) == o # {} /\ o # {0}
\* x || null
OrNull(o) == IF TruthyStr(o) THEN o ELSE Null

Min(a, b) == IF a <= b THEN a ELSE b
Abs(n) == IF n < 0 THEN -n ELSE n

-----------------------------------------------------------------------------
(* Responses: NextResponse.json(body, {status}) *)

NoDiag == [details |-> Null, hint |-> Null, code |-> Null]

Response(status, error, success, message, id, list, diag) ==
    [status |-> status, error |-> error, success |-> success, message |-> message,
     id |-> id, list |-> list, diag |-> diag]

ErrorResponse(status, msg) ==
    Response(status, Some(msg), FALSE, Null, Null, <<>>, NoDiag)

\* mutant: the catch passes the exception's text on
UnexpectedLeaky == ErrorResponse(500, "TypeError: Cannot read properties of null")

\* the outermost catch of the three handlers
Unexpected == ErrorResponse(500, "An unexpected error occurred")

\* what a store call hands back to the handler: it throws, or it resolves to
\* {data, error}. error is an option of [message, details, hint, code].
StoreError(msg) == [message |-> msg, details |-> Null, hint |-> Null, code |-> Null]

-----------------------------------------------------------------------------
(* POST /transactions *)

requiredFields == <<"anggota_id", "tipe_transaksi", "source_type", "jumlah">>

\* !body[field] is false
Truthy(body, field) ==
    IF field = "jumlah" THEN TruthyNum(body[field]) ELSE TruthyStr(body[field])

\* mutant: the loop goes on to the last required field that fails
MissingFieldLast(body) ==
    LET bad == {i \in 1..Len(requiredFields) : ~Truthy(body, requiredFields[i])}
    IN  IF bad = {} THEN Null
        ELSE Some(requiredFields[CHOOSE i \in bad : \A j \in bad : i >= j])

\* the field the loop over requiredFields stops at, if any
MissingField(body) ==
    LET bad == {i \in 1..Len(requiredFields) : ~Truthy(body, requiredFields[i])}
    IN  IF bad = {} THEN Null
        ELSE Some(requiredFields[CHOOSE i \in bad : \A j \in bad : i <= j])

JenisTabunganMessage == "Jenis tabungan harus dipilih untuk setoran atau penarikan"

\* mutant: the savings type is not checked
ValidatePostNoSavingsCheck(body) ==
    IF MissingField(body) # Null
    THEN Some(ErrorResponse(400, "Field '" \o Val(MissingField(body)) \o "' is required"))
    ELSE Null

\* mutant: the loop over requiredFields is skipped
ValidatePostNoRequiredCheck(body) ==
    IF body.source_type = Some("tabungan") /\ ~TruthyStr(body.jenis_tabungan_id)
    THEN Some(ErrorResponse(400, JenisTabunganMessage))
    ELSE Null

\* the response of the validation, Null when the body passes
ValidatePost(body) ==
    IF MissingField(body) # Null
    THEN Some(ErrorResponse(400, "Field '" \o Val(MissingField(body)) \o "' is required"))
    ELSE IF body.source_type = Some("tabungan") /\ ~TruthyStr(body.jenis_tabungan_id)
    THEN Some(ErrorResponse(400, JenisTabunganMessage))
    ELSE Null

\* mutant: the legacy key is not read
PembiayaanArgNewOnly(body) == OrNull(body.pembiayaan_id)

\* mutant: the legacy key comes first
PembiayaanArgLegacyFirst(body) ==
    IF TruthyStr(body.pinjaman_id) THEN body.pinjaman_id
    ELSE OrNull(body.pembiayaan_id)

\* body.pembiayaan_id || body.pinjaman_id || null
PembiayaanArg(body) ==
    IF TruthyStr(body.pembiayaan_id) THEN body.pembiayaan_id
    ELSE OrNull(body.pinjaman_id)

\* the parameters of supabase.rpc("add_transaction", ...)
AddTransactionArgs(body) ==
    [p_anggota_id        |-> body.anggota_id,
     p_tipe_transaksi    |-> body.tipe_transaksi,
     p_source_type       |-> body.source_type,
     p_jumlah            |-> body.jumlah,
     p_deskripsi         |-> OrNull(body.deskripsi),
     p_jenis_tabungan_id |-> OrNull(body.jenis_tabungan_id),
     p_pembiayaan_id     |-> PembiayaanArg(body)]

\* mutant: data.success is not checked
PostRespondUnchecked(out) ==
    IF out.thrown THEN Unexpected
    ELSE IF out.error # Null
    THEN ErrorResponse(500, "Failed to create transaction: " \o Val(out.error).message)
    ELSE IF out.data = Null THEN Unexpected
    ELSE Response(200, Null, TRUE, Some("Transaction created successfully"),
                  Val(out.data).transaction_id, <<>>, NoDiag)

\* the handler after the await of the rpc; out = [thrown, error, data]
PostRespond(out) ==
    IF out.thrown THEN Unexpected
    ELSE IF out.error # Null
    THEN ErrorResponse(500, "Failed to create transaction: " \o Val(out.error).message)
    ELSE IF out.data = Null THEN Unexpected   \* data.success of null throws
    ELSE IF ~Val(out.data).success
    THEN Response(400, Val(out.data).error, FALSE, Null, Null, <<>>, NoDiag)
    ELSE Response(200, Null, TRUE, Some("Transaction created successfully"),
                  Val(out.data).transaction_id, <<>>, NoDiag)

-----------------------------------------------------------------------------
(* The store (external collaborator): add_transaction *)

Accounts == {"j1", "p1", "p2"}   \* savings accounts by savings type, loan accounts by loan id
MaxSaldo == 2                    \* balances stay within 0..MaxSaldo

Directions == {"masuk", "keluar"}
SourceTypes == {"tabungan", "pembiayaan"}

\* the account an add_transaction call touches, Null when it names none
AccountOf(args) ==
    IF args.p_source_type = Some("tabungan") THEN args.p_jenis_tabungan_id
    ELSE IF args.p_source_type = Some("pembiayaan") THEN args.p_pembiayaan_id
    ELSE Null

\* the signed change of the account balance
Delta(args) ==
    IF args.p_tipe_transaksi = Some("masuk") THEN Abs(Val(args.p_jumlah))
    ELSE -Abs(Val(args.p_jumlah))

\* the store can record the transaction
Acceptable(args) ==
    /\ args.p_tipe_transaksi \in {Some(d) : d \in Directions}
    /\ args.p_source_type \in {Some(t) : t \in SourceTypes}
    /\ args.p_jumlah # Null /\ Val(args.p_jumlah) > 0
    /\ AccountOf(args) \in {Some(a) : a \in Accounts}
    /\ saldo[Val(AccountOf(args))] + Delta(args) \in 0..MaxSaldo

IdOf(n) == "tx" \o ToString(n)

\* the ledger row add_transaction inserts, with the columns get_all_transactions joins
NewRow(n, args) ==
    LET acc == Val(AccountOf(args))
        tab == args.p_source_type = Some("tabungan")
    IN  [id |-> IdOf(n),
         anggota_id |-> Val(args.p_anggota_id),
         tipe_transaksi |-> Val(args.p_tipe_transaksi),
         source_type |-> args.p_source_type,
         deskripsi |-> args.p_deskripsi,
         jumlah |-> Abs(Val(args.p_jumlah)),
         sebelum |-> saldo[acc],
         sesudah |-> saldo[acc] + Delta(args),
         pembiayaan_id |-> IF tab THEN Null ELSE Some(acc),
         tabungan_id |-> IF tab THEN Some("tab-" \o acc) ELSE Null,
         created_at |-> n,
         updated_at |-> n,
         anggota_nama |-> Some("Anggota"),
         anggota_nomor_rekening |-> Some("02.1.0001"),
         tabungan_saldo |-> IF tab THEN Some(saldo[acc] + Delta(args)) ELSE Null,
         tabungan_jenis_id |-> IF tab THEN Some(acc) ELSE Null,
         tabungan_jenis_nama |-> IF tab THEN Some("Simpanan") ELSE Null,
         tabungan_jenis_kode |-> IF tab THEN Some("SIM") ELSE Null,
         pembiayaan_jumlah |-> IF tab THEN Null ELSE Some(MaxSaldo),
         pembiayaan_sisa |-> IF tab THEN Null ELSE Some(saldo[acc] + Delta(args)),
         pembiayaan_jenis |-> IF tab THEN Null ELSE Some("Murabahah")]

\* outcomes of a store call as the client reports them
Thrown == [thrown |-> TRUE, error |-> Null, data |-> Null]
Failed(msg) == [thrown |-> FALSE, error |-> Some(StoreError(msg)), data |-> Null]
Resolved(data) == [thrown |-> FALSE, error |-> Null, data |-> data]

AddSuccess(n) == Resolved(Some([success |-> TRUE, transaction_id |-> Some(IdOf(n)), error |-> Null]))
AddRefused(msg) == Resolved(Some([success |-> FALSE, transaction_id |-> Null, error |-> Some(msg)]))

\* what add_transaction can answer without recording anything
AddFailures ==
    {Thrown, Failed("connection refused"), Resolved(Null), AddRefused("Saldo tidak mencukupi")}

-----------------------------------------------------------------------------
(* Requests *)

EmptyBody ==
    [anggota_id |-> Null, tipe_transaksi |-> Null, source_type |-> Null, jumlah |-> Null,
     deskripsi |-> Null, jenis_tabungan_id |-> Null, pembiayaan_id |-> Null,
     pinjaman_id |-> Null]

\* every JSON body over the keys POST reads
Bodies ==
    [anggota_id        : {Null, Some(""), Some("a1")},
     tipe_transaksi    : {Null, Some("masuk"), Some("keluar"), Some("transfer")},
     source_type       : {Null, Some("tabungan"), Some("pembiayaan"), Some("lainnya")},
     jumlah            : {Null} \cup {Some(n) : n \in -MaxJumlah..MaxJumlah},
     deskripsi         : {Null, Some("setoran")},
     jenis_tabungan_id : {Null, Some(""), Some("j1")},
     pembiayaan_id     : {Null, Some(""), Some("p1"), Some("p2")},
     pinjaman_id       : {Null, Some("p1"), Some("p2")}]

Idle ==
    [kind |-> "none", pc |-> "idle", json |-> TRUE, body |-> EmptyBody, id |-> Null,
     args |-> Null, calls |-> <<>>, resp |-> Null]

\* the store call `name` ended with outcome `out`; `found` says whether the row
\* the call names was in the ledger when the store executed it
Call(name, out, found) == [call |-> name, out |-> out, found |-> found]

Finish(q, calls, resp) == [q EXCEPT !.pc = "done", !.calls = calls, !.resp = Some(resp)]

\* POST: from the request to the first await of the store (lines 152-194);
\* the body is any one of `bodies`
PostReceive(r, bodies) ==
    /\ req[r].pc = "idle"
    /\ \E body \in bodies :
         LET q == [Idle EXCEPT !.kind = "POST", !.body = body]
         IN  req' = [req EXCEPT ![r] =
                  IF ValidatePost(body) # Null
                  THEN Finish(q, <<>>, Val(ValidatePost(body)))
                  ELSE [q EXCEPT !.pc = "add_transaction",
                                 !.args = Some(AddTransactionArgs(body))]]
    /\ UNCHANGED <<ledger, saldo, nextId, uiVars>>

\* POST with a body that is not JSON: request.json() throws (lines 154, 221-227)
PostBadJson(r) ==
    /\ req[r].pc = "idle"
    /\ req' = [req EXCEPT ![r] =
            Finish([Idle EXCEPT !.kind = "POST", !.json = FALSE], <<>>, Unexpected)]
    /\ UNCHANGED <<ledger, saldo, nextId, uiVars>>

\* the store records the transaction: ledger insert and balance change as one
\* unit, then the handler answers (lines 196-220)
StoreAddOk(r) ==
    /\ req[r].pc = "add_transaction"
    /\ nextId <= MaxCreate
    /\ Acceptable(Val(req[r].args))
    /\ LET args == Val(req[r].args)
           out == AddSuccess(nextId)
       IN  /\ ledger' = Append(ledger, NewRow(nextId, args))
           /\ saldo' = [saldo EXCEPT ![Val(AccountOf(args))] = @ + Delta(args)]
           /\ nextId' = nextId + 1
           /\ req' = [req EXCEPT ![r] =
                   Finish(@, Append(@.calls, Call("add_transaction", out, FALSE)),
                          PostRespond(out))]
    /\ UNCHANGED uiVars

\* the store call fails, or the procedure refuses; nothing is recorded (lines 196-227)
StoreAddFail(r) ==
    /\ req[r].pc = "add_transaction"
    /\ \E out \in AddFailures :
         req' = [req EXCEPT ![r] =
             Finish(@, Append(@.calls, Call("add_transaction", out, FALSE)),
                    PostRespond(out))]
    /\ UNCHANGED <<ledger, saldo, nextId, uiVars>>

-----------------------------------------------------------------------------
(* GET /transactions *)

Limit == 100

\* mutant: the rpc is called without .limit
ListTransactionsUnlimited(rows) == rows

\* get_all_transactions with .limit(Limit): the first rows of the ledger
ListTransactions(rows) == SubSeq(rows, 1, Min(Len(rows), Limit))

\* Number(item.jumlah): the store hands jumlah over as a number
Number(x) == x

\* mutant: the stored sign is passed on
SignedJumlahStored(item) == Number(item.jumlah)

\* the sign of jumlah follows tipe_transaksi (lines 85-88)
SignedJumlah(item) ==
    IF item.tipe_transaksi = "masuk" THEN Abs(Number(item.jumlah))
    ELSE -Abs(Number(item.jumlah))

\* mutant: the member object is built without looking at the name
AnggotaOfAlways(item) ==
    Some([nama |-> item.anggota_nama, nomor_rekening |-> item.anggota_nomor_rekening])

\* anggota of an entry (lines 103-109)
AnggotaOf(item) ==
    IF TruthyStr(item.anggota_nama)
    THEN Some([nama |-> item.anggota_nama,
               nomor_rekening |-> item.anggota_nomor_rekening])
    ELSE Null

\* mutant: the savings-type object is built without looking at the name
JenisTabunganOfAlways(item) ==
    Some([nama |-> item.tabungan_jenis_nama, kode |-> item.tabungan_jenis_kode])

\* tabungan.jenis_tabungan of an entry (lines 115-121)
JenisTabunganOf(item) ==
    IF TruthyStr(item.tabungan_jenis_nama)
    THEN Some([nama |-> item.tabungan_jenis_nama, kode |-> item.tabungan_jenis_kode])
    ELSE Null

\* mutant: the savings object is built without looking at tabungan_id
TabunganOfAlways(item) ==
    Some([saldo |-> item.tabungan_saldo,
          jenis_tabungan_id |-> item.tabungan_jenis_id,
          jenis_tabungan |-> JenisTabunganOf(item)])

\* tabungan of an entry (lines 110-123)
TabunganOf(item) ==
    IF TruthyStr(item.tabungan_id)
    THEN Some([saldo |-> item.tabungan_saldo,
               jenis_tabungan_id |-> item.tabungan_jenis_id,
               jenis_tabungan |-> JenisTabunganOf(item)])
    ELSE Null

\* mutant: the loan object is built without looking at the loan's columns
PinjamanOfAlways(item) ==
    Some([id |-> item.pembiayaan_id,
          jumlah |-> item.pembiayaan_jumlah,
          sisa_pembayaran |-> item.pembiayaan_sisa,
          jenis_pinjaman |-> item.pembiayaan_jenis])

\* pinjaman of an entry (lines 124-134)
PinjamanOf(item) ==
    IF TruthyNum(item.pembiayaan_jumlah)
    THEN Some([id |-> item.pembiayaan_id,
               jumlah |-> item.pembiayaan_jumlah,
               sisa_pembayaran |-> item.pembiayaan_sisa,
               jenis_pinjaman |-> item.pembiayaan_jenis])
    ELSE Null

\* one flat row of the store as the nested entry of the response (lines 81-135)
Normalize(item) ==
    [id |-> item.id,
     anggota_id |-> item.anggota_id,
     tipe_transaksi |-> item.tipe_transaksi,
     source_type |-> item.source_type,
     deskripsi |-> item.deskripsi,
     jumlah |-> SignedJumlah(item),
     sebelum |-> item.sebelum,
     sesudah |-> item.sesudah,
     pembiayaan_id |-> item.pembiayaan_id,
     tabungan_id |-> item.tabungan_id,
     created_at |-> item.created_at,
     updated_at |-> item.updated_at,
     anggota |-> AnggotaOf(item),
     tabungan |-> TabunganOf(item),
     pinjaman |-> PinjamanOf(item)]

\* data?.map(...) || []
Transform(data) ==
    IF data = Null THEN <<>>
    ELSE [i \in DOMAIN Val(data) |-> Normalize(Val(data)[i])]

\* mutant: the error of the rpc is not looked at
GetRespondIgnoringError(out) ==
    IF out.thrown THEN Unexpected
    ELSE Response(200, Null, FALSE, Null, Null, Transform(out.data), NoDiag)

\* the handler after the await of the rpc (lines 46-52, 138-149)
GetRespond(out) ==
    IF out.thrown THEN Unexpected
    ELSE IF out.error # Null THEN ErrorResponse(500, Val(out.error).message)
    ELSE Response(200, Null, FALSE, Null, Null, Transform(out.data), NoDiag)

\* GET: from the request to the await of the rpc (lines 35-44)
GetReceive(r) ==
    /\ req[r].pc = "idle"
    /\ req' = [req EXCEPT ![r] = [Idle EXCEPT !.kind = "GET", !.pc = "get_all_transactions"]]
    /\ UNCHANGED <<ledger, saldo, nextId, uiVars>>

\* what get_all_transactions can answer: the rows, a failure, or nothing at all
GetOutcomes ==
    {Resolved(Some(ListTransactions(ledger))), Resolved(Null), Thrown,
     Failed("permission denied for function get_all_transactions")}

\* the store answers the rpc and the handler answers the request (lines 42-149)
StoreGetAll(r) ==
    /\ req[r].pc = "get_all_transactions"
    /\ \E out \in GetOutcomes :
         req' = [req EXCEPT ![r] =
             Finish(@, Append(@.calls, Call("get_all_transactions", out, FALSE)),
                    GetRespond(out))]
    /\ UNCHANGED <<ledger, saldo, nextId, uiVars>>

-----------------------------------------------------------------------------
(* DELETE /transactions *)

\* the row with this id is in the ledger
InLedger(id) == \E i \in DOMAIN ledger : ledger[i].id = id

RowOf(id) == ledger[CHOOSE i \in DOMAIN ledger : ledger[i].id = id]

\* the columns the existence check selects (line 264)
Selected(row) ==
    [id |-> row.id, anggota_id |-> row.anggota_id, tipe_transaksi |-> row.tipe_transaksi,
     jumlah |-> row.jumlah, source_type |-> row.source_type,
     tabungan_id |-> row.tabungan_id, pembiayaan_id |-> row.pembiayaan_id]

\* mutant: the delete matches no row
RemoveNone(rows, id) == rows

\* the ledger without the rows of this id
Remove(rows, id) == SelectSeq(rows, LAMBDA row : row.id # id)

\* mutant: only a null id counts as missing
IdMissingNullOnly(id) == id = Null

\* !transactionId: searchParams.get("id") is null or ""
IdMissing(id) == ~TruthyStr(id)

\* DELETE: from the request to the await of the existence check (lines 230-267);
\* the id parameter is any one of `ids`
DeleteReceive(r, ids) ==
    /\ req[r].pc = "idle"
    /\ \E id \in ids :
         LET q == [Idle EXCEPT !.kind = "DELETE", !.id = id]
         IN  req' = [req EXCEPT ![r] =
                  IF IdMissing(id)
                  THEN Finish(q, <<>>, ErrorResponse(400, "Transaction ID is required"))
                  ELSE [q EXCEPT !.pc = "select"]]
    /\ UNCHANGED <<ledger, saldo, nextId, uiVars>>

\* what .select(...).eq("id", id).single() can answer
SelectOutcomes(id) ==
    {Thrown, Failed("permission denied for table transaksi")} \cup
    (IF InLedger(id) THEN {Resolved(Some(Selected(RowOf(id))))}
     ELSE {Failed("JSON object requested, multiple (or no) rows returned"),
           Resolved(Null)})

\* mutant: the error of the existence check is not looked at
AfterSelectIgnoringError(q, calls, out) ==
    IF out.thrown THEN Finish(q, calls, Unexpected)
    ELSE [q EXCEPT !.pc = "delete", !.calls = calls]

\* the handler after the await of the existence check (lines 271-296):
\* the request with its answer, or waiting for the delete
AfterSelect(q, calls, out) ==
    IF out.thrown THEN Finish(q, calls, Unexpected)
    ELSE IF out.error # Null
    THEN Finish(q, calls,
                ErrorResponse(404, "Transaction not found: " \o Val(out.error).message))
    ELSE IF out.data = Null
    THEN Finish(q, calls, ErrorResponse(404, "Transaction not found"))
    ELSE [q EXCEPT !.pc = "delete", !.calls = calls]

\* the store answers the existence check and the handler goes on (lines 260-296)
StoreSelect(r) ==
    /\ req[r].pc = "select"
    /\ \E out \in SelectOutcomes(Val(req[r].id)) :
         req' = [req EXCEPT ![r] =
             AfterSelect(@, Append(@.calls, Call("select", out, InLedger(Val(@.id)))),
                         out)]
    /\ UNCHANGED <<ledger, saldo, nextId, uiVars>>

\* what .delete().eq("id", id) can answer without removing the row
DeleteFailures ==
    {Thrown,
     [thrown |-> FALSE, data |-> Null,
      error |-> Some([message |-> "update or delete on table violates foreign key constraint",
                      details |-> Some("Key is still referenced"), hint |-> Null,
                      code |-> Some("23503")])]}

\* mutant: the diagnostic fields of the store's error are dropped
DeleteRespondNoDiag(out) ==
    IF out.thrown THEN Unexpected
    ELSE IF out.error # Null
    THEN ErrorResponse(500, "Failed to delete transaction: " \o Val(out.error).message)
    ELSE Response(200, Null, TRUE, Some("Transaction deleted successfully"), Null, <<>>,
                  NoDiag)

\* mutant: a delete that succeeded is answered 204
DeleteRespondNoContent(out) ==
    IF out.thrown THEN Unexpected
    ELSE IF out.error # Null
    THEN Response(500, Some("Failed to delete transaction: " \o Val(out.error).message),
                  FALSE, Null, Null, <<>>,
                  [details |-> Val(out.error).details, hint |-> Val(out.error).hint,
                   code |-> Val(out.error).code])
    ELSE Response(204, Null, TRUE, Some("Transaction deleted successfully"), Null, <<>>,
                  NoDiag)

\* the handler after the await of the delete (lines 300-331)
DeleteRespond(out) ==
    IF out.thrown THEN Unexpected
    ELSE IF out.error # Null
    THEN Response(500, Some("Failed to delete transaction: " \o Val(out.error).message),
                  FALSE, Null, Null, <<>>,
                  [details |-> Val(out.error).details, hint |-> Val(out.error).hint,
                   code |-> Val(out.error).code])
    ELSE Response(200, Null, TRUE, Some("Transaction deleted successfully"), Null, <<>>,
                  NoDiag)

\* mutant: the delete also takes the movement of the row back out of the
\* balance of its account
StoreDeleteOkReversing(r) ==
    /\ req[r].pc = "delete"
    /\ LET id == Val(req[r].id)
           out == Resolved(Null)
           acc == IF ~InLedger(id) THEN Null
                  ELSE IF RowOf(id).tabungan_jenis_id # Null THEN RowOf(id).tabungan_jenis_id
                  ELSE RowOf(id).pembiayaan_id
       IN  /\ ledger' = Remove(ledger, id)
           /\ saldo' = IF acc = Null THEN saldo
                       ELSE [saldo EXCEPT ![Val(acc)] =
                                @ - (RowOf(id).sesudah - RowOf(id).sebelum)]
           /\ req' = [req EXCEPT ![r] =
                   Finish(@, Append(@.calls, Call("delete", out, InLedger(id))),
                          DeleteRespond(out))]
    /\ UNCHANGED <<nextId, uiVars>>

\* the store removes the row, and nothing else, and the handler answers (lines 293-324)
StoreDeleteOk(r) ==
    /\ req[r].pc = "delete"
    /\ LET id == Val(req[r].id)
           out == Resolved(Null)
       IN  /\ ledger' = Remove(ledger, id)
           /\ req' = [req EXCEPT ![r] =
                   Finish(@, Append(@.calls, Call("delete", out, InLedger(id))),
                          DeleteRespond(out))]
    /\ UNCHANGED <<saldo, nextId, uiVars>>

\* the delete fails in the store, or the client throws; the row stays (lines 300-331)
StoreDeleteFail(r) ==
    /\ req[r].pc = "delete"
    /\ \E out \in DeleteFailures :
         req' = [req EXCEPT ![r] =
             Finish(@, Append(@.calls, Call("delete", out, InLedger(Val(@.id)))),
                    DeleteRespond(out))]
    /\ UNCHANGED <<ledger, saldo, nextId, uiVars>>

-----------------------------------------------------------------------------
(* EditAkunForm: the dialog that creates or edits a row of table akun       *)
(* (src/app/akun/components/edit-akun-form.tsx)                             *)

MaxSubmit == 2    \* submissions of the form in one behaviour

\* phone numbers the schema accepts, members an account can be linked to
Phones == {"081100000001", "081100000002"}
Members == {"a1", "a2"}
Pins == {"", "123456"}

AkunId(n) == "akun" \o ToString(n)

\* error objects the store client reports or throws: a code and a message,
\* the message as the list of its parts
AkunError(code, message) == [code |-> code, message |-> message]
DupPhone ==
    AkunError(Some("23505"), <<"duplicate key", "value violates unique constraint",
                               "akun_nomor_telepon_key">>)
DupAnggota ==
    AkunError(Some("23505"), <<"duplicate key", "value violates unique constraint",
                               "unique_anggota_id">>)
Denied == AkunError(Some("42501"), <<"permission denied for table akun">>)
ManyRows ==
    AkunError(Some("PGRST116"), <<"JSON object requested, multiple (or no) rows returned">>)
FetchFailed == AkunError(Null, <<"Failed to fetch">>)
EmptyError == AkunError(Null, <<>>)

\* message.includes(part)
Includes(message, part) == \E i \in DOMAIN message : message[i] = part

\* the message as one string
RECURSIVE Text(_)
Text(message) ==
    IF message = <<>> THEN ""
    ELSE IF Len(message) = 1 THEN message[1]
    ELSE message[1] \o " " \o Text(Tail(message))

AkunThrown(err) == [thrown |-> TRUE, error |-> Some(err), data |-> Null]
AkunFailed(err) == [thrown |-> FALSE, error |-> Some(err), data |-> Null]

\* .select('id').eq(...).maybeSingle() over the rows that match
CheckOutcomes(matches) ==
    {AkunThrown(FetchFailed), AkunThrown(EmptyError), AkunFailed(Denied)} \cup
    (IF matches = {} THEN {Resolved(Null)}
     ELSE IF Cardinality(matches) = 1
     THEN {Resolved(Some([id |-> row.id])) : row \in matches}
     ELSE {AkunFailed(ManyRows)})

\* the rows other than the one written
Others(self) == {row \in akunTable : Some(row.id) # self}

PhoneTaken(self, data) == \E row \in Others(self) : row.nomor_telepon = data.nomor_telepon

AnggotaTaken(self, data) ==
    data.anggota_id # Null /\ \E row \in Others(self) : row.anggota_id = data.anggota_id

\* the failures of an insert or update: the client throws, the store refuses,
\* or a unique constraint the write would break
WriteFailures(self, data) ==
    {AkunThrown(FetchFailed), AkunFailed(Denied)}
        \cup (IF PhoneTaken(self, data) THEN {AkunFailed(DupPhone)} ELSE {})
        \cup (IF AnggotaTaken(self, data) THEN {AkunFailed(DupAnggota)} ELSE {})

\* the table after .insert(data)
Inserted(data) ==
    akunTable \cup {[id |-> AkunId(Cardinality(akunTable) + 1),
                     nomor_telepon |-> data.nomor_telepon, pin |-> data.pin,
                     anggota_id |-> data.anggota_id,
                     is_verified |-> data.is_verified, is_active |-> data.is_active]}

\* the table after .update(data).eq('id', id): a pin that is not in data stays
Updated(id, data) ==
    {IF row.id # id THEN row
     ELSE [row EXCEPT !.nomor_telepon = data.nomor_telepon,
                      !.anggota_id = data.anggota_id,
                      !.is_verified = data.is_verified,
                      !.is_active = data.is_active,
                      !.pin = IF data.pin # Null THEN data.pin ELSE @] : row \in akunTable}

-----------------------------------------------------------------------------
(* EditAkunForm: the component *)

DefaultValues ==
    [nomor_telepon |-> "", pin |-> "", anggota_id |-> Null,
     is_verified |-> FALSE, is_active |-> TRUE]

\* the dialog before it is opened
FormClosed ==
    [open |-> FALSE, akun |-> Null, values |-> DefaultValues, isSubmitting |-> FALSE,
     errors |-> {}, pc |-> "idle", calls |-> <<>>, toast |-> Null, submits |-> 0]

\* form.reset(...) of the effect that runs when the dialog opens (lines 106-130)
ResetValues(akun) ==
    IF akun = Null THEN DefaultValues
    ELSE [nomor_telepon |-> Val(akun).nomor_telepon, pin |-> "",
          anggota_id |-> Val(akun).anggota_id,
          is_verified |-> Val(akun).is_verified, is_active |-> Val(akun).is_active]

\* what the fields can be set to
FieldValues ==
    [nomor_telepon : Phones, pin : Pins, anggota_id : {Null} \cup {Some(m) : m \in Members},
     is_verified : {FALSE}, is_active : {TRUE}]

FieldError(field, message) == [field |-> field, message |-> message]
PhoneError == FieldError("nomor_telepon", "Nomor telepon sudah terdaftar")
AnggotaError == FieldError("anggota_id", "Anggota ini sudah terhubung dengan akun lain")

Toast(title, description) == [title |-> title, description |-> description]

\* the condition of the second pre-check (line 155)
NeedsAnggotaCheck(f) ==
    /\ TruthyStr(f.values.anggota_id)
    /\ f.values.anggota_id # Some("none")
    /\ f.akun = Null \/ f.values.anggota_id # Val(f.akun).anggota_id

\* where onSubmit goes after the phone pre-check, or without it in edit mode
BeforeWrite(f) == IF NeedsAnggotaCheck(f) THEN "check_anggota" ELSE "write"

\* the object passed to insert or update (lines 175-186): the schema admits a
\* pin of six digits or '', so trim() leaves it as it is
AkunData(values) ==
    [nomor_telepon |-> values.nomor_telepon, anggota_id |-> values.anggota_id,
     is_verified |-> values.is_verified, is_active |-> values.is_active,
     pin |-> IF values.pin # "" THEN Some(values.pin) ELSE Null]

\* return, with the finally block (lines 319-321)
Stop(f) == [f EXCEPT !.isSubmitting = FALSE, !.pc = "idle"]

\* the message the catch block settles on (lines 238-304)
CatchMessage(error) ==
    IF TruthyStr(error.code)
    THEN IF error.code = Some("23505")
         THEN IF Includes(error.message, "unique_anggota_id")
              THEN "Anggota ini sudah terhubung dengan akun lain"
              ELSE IF Includes(error.message, "akun_nomor_telepon_key")
              THEN "Nomor telepon sudah terdaftar"
              ELSE "Data duplikat terdeteksi"
         ELSE IF error.code = Some("23503") THEN "Anggota yang dipilih tidak valid"
         ELSE IF error.code = Some("23502") THEN "Ada kolom yang tidak boleh kosong"
         ELSE "Error database (" \o Val(error.code) \o ")"
    ELSE IF error.message # <<>>
    THEN IF Includes(error.message, "duplicate key")
              /\ Includes(error.message, "akun_nomor_telepon_key")
         THEN "Nomor telepon sudah digunakan oleh akun lain"
         ELSE IF error.message # <<"{}">> THEN Text(error.message)
         ELSE "Terjadi kesalahan yang tidak diketahui"
    ELSE "Terjadi kesalahan yang tidak diketahui"

\* the field errors the catch block sets
CatchErrors(error) ==
    IF TruthyStr(error.code)
    THEN IF error.code = Some("23505") /\ Includes(error.message, "unique_anggota_id")
         THEN {AnggotaError}
         ELSE IF error.code = Some("23505")
                   /\ Includes(error.message, "akun_nomor_telepon_key")
         THEN {PhoneError}
         ELSE {}
    ELSE IF Includes(error.message, "duplicate key")
              /\ Includes(error.message, "akun_nomor_telepon_key")
    THEN {PhoneError}
    ELSE {}

\* the catch block and the finally block (lines 235-321)
Catch(f, error) ==
    Stop([f EXCEPT !.errors = @ \cup CatchErrors(error),
                   !.toast = Some(Toast("Error",
                        "Gagal " \o (IF f.akun # Null THEN "memperbarui" ELSE "membuat")
                            \o " akun: " \o CatchMessage(error)))])

\* mutant: the conflict sets the field error and onSubmit goes on
AfterCheckPhoneNoReturn(f, out) ==
    IF out.thrown \/ out.error # Null THEN Catch(f, Val(out.error))
    ELSE IF out.data # Null
    THEN [f EXCEPT !.errors = @ \cup {PhoneError}, !.pc = BeforeWrite(f)]
    ELSE [f EXCEPT !.pc = BeforeWrite(f)]

\* onSubmit after the await of the phone pre-check (lines 137-152)
AfterCheckPhone(f, out) ==
    IF out.thrown \/ out.error # Null THEN Catch(f, Val(out.error))
    ELSE IF out.data # Null THEN Stop([f EXCEPT !.errors = @ \cup {PhoneError}])
    ELSE [f EXCEPT !.pc = BeforeWrite(f)]

\* onSubmit after the await of the member pre-check (lines 155-172)
AfterCheckAnggota(f, out) ==
    IF out.thrown \/ out.error # Null THEN Catch(f, Val(out.error))
    ELSE IF out.data # Null THEN Stop([f EXCEPT !.errors = @ \cup {AnggotaError}])
    ELSE [f EXCEPT !.pc = "write"]

\* onSubmit after the await of the insert or update (lines 203-234)
AfterWrite(f, out) ==
    IF out.thrown THEN Catch(f, Val(out.error))
    ELSE IF out.error # Null
    THEN IF Val(out.error).code = Some("23505")
              /\ Includes(Val(out.error).message, "akun_nomor_telepon_key")
         THEN Stop([f EXCEPT !.errors = @ \cup {PhoneError},
                             !.toast = Some(Toast("Nomor Telepon Duplikat",
                                  "Nomor telepon ini sudah digunakan oleh akun lain"))])
         ELSE Catch(f, AkunError(Null,
                  IF Val(out.error).message # <<>> THEN Val(out.error).message
                  ELSE <<"Terjadi kesalahan saat menyimpan akun">>))
    ELSE Stop([f EXCEPT !.open = FALSE,
                        !.toast = Some(Toast("Berhasil",
                             IF f.akun # Null THEN "Akun berhasil diperbarui"
                             ELSE "Akun baru berhasil dibuat"))])

\* the call of onSubmit that has returned, added to the calls of the submission
Called(f, name, out, found) == [f EXCEPT !.calls = Append(@, Call(name, out, found))]

\* the parent opens the dialog, for a new account or for a row of the table
OpenForm ==
    /\ ~form.open /\ form.pc = "idle"
    /\ \E akun \in {Null} \cup {Some(row) : row \in akunTable} :
         form' = [form EXCEPT !.open = TRUE, !.akun = akun, !.values = ResetValues(akun),
                              !.errors = {}, !.calls = <<>>, !.toast = Null]
    /\ UNCHANGED <<akunTable, notifikasi, page, routeVars>>

\* the user sets the fields; they are disabled while a submission runs
Fill ==
    /\ form.open /\ ~form.isSubmitting /\ form.pc = "idle"
    /\ \E v \in FieldValues : v # form.values /\ form' = [form EXCEPT !.values = v]
    /\ UNCHANGED <<akunTable, notifikasi, page, routeVars>>

\* the user closes the dialog
CloseForm ==
    /\ form.open /\ form.pc = "idle"
    /\ form' = [form EXCEPT !.open = FALSE]
    /\ UNCHANGED <<akunTable, notifikasi, page, routeVars>>

\* handleSubmit validates the fields, drops the errors of the last submission
\* and calls onSubmit, which runs to its first await (lines 133-142, 155-160,
\* 188-200)
Submit ==
    /\ form.open /\ ~form.isSubmitting /\ form.pc = "idle"
    /\ form.submits < MaxSubmit
    /\ form.values.nomor_telepon \in Phones
    /\ form' = [form EXCEPT !.isSubmitting = TRUE, !.errors = {}, !.calls = <<>>,
                            !.toast = Null, !.submits = @ + 1,
                            !.pc = IF form.akun = Null THEN "check_phone"
                                   ELSE BeforeWrite(form)]
    /\ UNCHANGED <<akunTable, notifikasi, page, routeVars>>

\* the phone pre-check returns and onSubmit goes on to its next await or its end
CheckPhone ==
    /\ form.pc = "check_phone"
    /\ LET matches == {row \in akunTable : row.nomor_telepon = form.values.nomor_telepon}
       IN  \E out \in CheckOutcomes(matches) :
               form' = AfterCheckPhone(Called(form, "check_phone", out, matches # {}), out)
    /\ UNCHANGED <<akunTable, notifikasi, page, routeVars>>

\* the member pre-check returns
CheckAnggota ==
    /\ form.pc = "check_anggota"
    /\ LET matches == {row \in akunTable : row.anggota_id = form.values.anggota_id}
       IN  \E out \in CheckOutcomes(matches) :
               form' = AfterCheckAnggota(Called(form, "check_anggota", out, matches # {}),
                                         out)
    /\ UNCHANGED <<akunTable, notifikasi, page, routeVars>>

\* the row the form edits, Null in create mode
Self == IF form.akun = Null THEN Null ELSE Some(Val(form.akun).id)

WriteName == IF form.akun = Null THEN "insert" ELSE "update"

\* the store writes the row and onSubmit ends (lines 188-234)
WriteOk ==
    /\ form.pc = "write"
    /\ LET data == AkunData(form.values)
       IN  /\ ~PhoneTaken(Self, data) /\ ~AnggotaTaken(Self, data)
           /\ akunTable' = IF form.akun = Null THEN Inserted(data)
                           ELSE Updated(Val(form.akun).id, data)
           /\ form' = AfterWrite(Called(form, WriteName, Resolved(Null), FALSE),
                                 Resolved(Null))
    /\ UNCHANGED <<notifikasi, page, routeVars>>

\* the write fails and the table stays as it is (lines 203-321)
WriteFail ==
    /\ form.pc = "write"
    /\ \E out \in WriteFailures(Self, AkunData(form.values)) :
           form' = AfterWrite(Called(form, WriteName, out, FALSE), out)
    /\ UNCHANGED <<akunTable, notifikasi, page, routeVars>>

\* another administrator adds an account the constraints of the table allow
OtherInsert ==
    /\ \E phone \in Phones, anggota \in {Null} \cup {Some(m) : m \in Members} :
         LET data == AkunData([DefaultValues EXCEPT !.nomor_telepon = phone,
                                                    !.anggota_id = anggota])
         IN  /\ ~PhoneTaken(Null, data) /\ ~AnggotaTaken(Null, data)
             /\ akunTable' = Inserted(data)
    /\ UNCHANGED <<form, notifikasi, page, routeVars>>

\* table akun at the start: one account, linked to member a1
FirstAkun ==
    [id |-> AkunId(1), nomor_telepon |-> "081100000001", pin |-> Some("123456"),
     anggota_id |-> Some("a1"), is_verified |-> TRUE, is_active |-> TRUE]

-----------------------------------------------------------------------------
(* NotificationsPage: the four lists of notifications                       *)
(* (src/scripts/update-balance.js)                                          *)

MaxNotif == 1     \* rows of table notifikasi
MaxFetch == 2     \* calls of fetchNotifications that can be in flight together

FetchSlots == 1..MaxFetch

Jenis == {"transaksi", "sistem"}

\* the rows of a set, newest first: .order('created_at', { ascending: false });
\* the id of a row is the moment it was created
RECURSIVE Newest(_)
Newest(rows) ==
    IF rows = {} THEN <<>>
    ELSE LET top == CHOOSE row \in rows : \A other \in rows : other.id <= row.id
         IN  <<top>> \o Newest(rows \ {top})

\* the four queries of fetchNotifications, in the order it makes them, and the
\* rows each one selects
Queries == <<"all", "unread", "transaction", "system">>

Selects(query, row) ==
    IF query = "all" THEN TRUE
    ELSE IF query = "unread" THEN row.is_read = FALSE
    ELSE IF query = "transaction" THEN row.jenis = "transaksi"
    ELSE row.jenis = "sistem"

\* what a query can answer: its rows, newest first, or a failure
QueryOutcomes(query) ==
    {Resolved(Some(Newest({row \in notifikasi : Selects(query, row)}))),
     Thrown, Failed("permission denied for table notifikasi")}

\* a call of fetchNotifications: its position, the answers it holds, and, once
\* it has ended, whether it ended in the catch block
Fetch(pc, got, failed) == [pc |-> pc, got |-> got, failed |-> failed]

NoFetch == Fetch("idle", <<>>, FALSE)

\* the page as useState builds it (lines 174-179)
PageAtMount ==
    [notifications |-> <<>>, unreadNotifications |-> <<>>,
     transactionNotifications |-> <<>>, systemNotifications |-> <<>>,
     loading |-> TRUE, toast |-> Null, fetch |-> [k \in FetchSlots |-> NoFetch]]

\* data || []
OrEmpty(out) == IF out.data = Null THEN <<>> ELSE Val(out.data)

QueryFailed(out) == out.thrown \/ out.error # Null

LoadToast == "Gagal memuat notifikasi. Silakan coba lagi nanti."

\* the position after the query at position pc
NextQuery(pc) ==
    IF pc = "all" THEN "unread" ELSE IF pc = "unread" THEN "transaction" ELSE "system"

\* mutant: each list is set as soon as its query has answered
AfterQueryEager(p, k, out) ==
    LET got == Append(p.fetch[k].got, out)
        set == IF p.fetch[k].pc = "all" THEN [p EXCEPT !.notifications = OrEmpty(out)]
               ELSE IF p.fetch[k].pc = "unread"
               THEN [p EXCEPT !.unreadNotifications = OrEmpty(out)]
               ELSE IF p.fetch[k].pc = "transaction"
               THEN [p EXCEPT !.transactionNotifications = OrEmpty(out)]
               ELSE [p EXCEPT !.systemNotifications = OrEmpty(out)]
    IN  IF QueryFailed(out)
        THEN [p EXCEPT !.toast = Some(LoadToast), !.loading = FALSE,
                       !.fetch[k] = Fetch("idle", <<>>, TRUE)]
        ELSE IF p.fetch[k].pc # "system"
        THEN [set EXCEPT !.fetch[k] = Fetch(NextQuery(p.fetch[k].pc), got, FALSE)]
        ELSE [set EXCEPT !.loading = FALSE, !.fetch[k] = Fetch("idle", <<>>, FALSE)]

\* fetchNotifications after the await of a query (lines 206-266): a failure
\* is thrown to the catch block, which shows a toast; the last answer sets
\* the four lists; the finally block ends the loading
AfterQuery(p, k, out) ==
    LET got == Append(p.fetch[k].got, out)
    IN  IF QueryFailed(out)
        THEN [p EXCEPT !.toast = Some(LoadToast), !.loading = FALSE,
                       !.fetch[k] = Fetch("idle", <<>>, TRUE)]
        ELSE IF p.fetch[k].pc # "system"
        THEN [p EXCEPT !.fetch[k] = Fetch(NextQuery(p.fetch[k].pc), got, FALSE)]
        ELSE [p EXCEPT !.notifications = OrEmpty(got[1]),
                       !.unreadNotifications = OrEmpty(got[2]),
                       !.transactionNotifications = OrEmpty(got[3]),
                       !.systemNotifications = OrEmpty(got[4]),
                       !.loading = FALSE,
                       !.fetch[k] = Fetch("idle", <<>>, FALSE)]

\* fetchNotifications up to its first await (lines 203-213)
Started(p, k) ==
    [p EXCEPT !.loading = TRUE, !.fetch[k] = Fetch("all", <<>>, FALSE)]

\* the effect of the mount, or the refresh button, which is disabled while
\* loading is true (lines 322-324, 423-426)
Refresh(k) ==
    /\ page.fetch[k].pc = "idle"
    /\ \A j \in FetchSlots : page.fetch[j].pc = "idle" => j >= k
    /\ \/ page = PageAtMount
       \/ ~page.loading
    /\ page' = Started(page, k)
    /\ UNCHANGED <<notifikasi, akunTable, form, routeVars>>

\* handleMarkAsRead: the store marks the row and the handler calls
\* fetchNotifications (lines 270-283)
MarkAsRead(k) ==
    /\ page.fetch[k].pc = "idle"
    /\ \A j \in FetchSlots : page.fetch[j].pc = "idle" => j >= k
    /\ \E row \in notifikasi :
         /\ \E i \in DOMAIN page.notifications : page.notifications[i].id = row.id
         /\ ~row.is_read
         /\ notifikasi' = (notifikasi \ {row}) \cup {[row EXCEPT !.is_read = TRUE]}
    /\ page' = Started(page, k)
    /\ UNCHANGED <<akunTable, form, routeVars>>

\* the store answers the query a call of fetchNotifications waits for
QueryReturns(k) ==
    /\ page.fetch[k].pc # "idle"
    /\ \E out \in QueryOutcomes(page.fetch[k].pc) : page' = AfterQuery(page, k, out)
    /\ UNCHANGED <<notifikasi, akunTable, form, routeVars>>

\* a notification is created for a member
Arrives ==
    /\ Cardinality(notifikasi) < MaxNotif
    /\ \E jenis \in Jenis :
         notifikasi' = notifikasi \cup
             {[id |-> Cardinality(notifikasi) + 1, jenis |-> jenis, is_read |-> FALSE]}
    /\ UNCHANGED <<page, akunTable, form, routeVars>>

\* the two pages before anything is opened
UiAtRest ==
    /\ akunTable = {FirstAkun}
    /\ form = FormClosed
    /\ notifikasi = {}
    /\ page = PageAtMount

-----------------------------------------------------------------------------
(* Specifications *)

\* the row the ledger holds before any request: a deposit of 1 into savings j1
OldRow ==
    [id |-> IdOf(0), anggota_id |-> "a1", tipe_transaksi |-> "masuk",
     source_type |-> Some("tabungan"), deskripsi |-> Null, jumlah |-> 1,
     sebelum |-> 0, sesudah |-> 1, pembiayaan_id |-> Null,
     tabungan_id |-> Some("tab-j1"), created_at |-> 0, updated_at |-> 0,
     anggota_nama |-> Some("Anggota"), anggota_nomor_rekening |-> Some("02.1.0001"),
     tabungan_saldo |-> Some(1), tabungan_jenis_id |-> Some("j1"),
     tabungan_jenis_nama |-> Some("Simpanan"), tabungan_jenis_kode |-> Some("SIM"),
     pembiayaan_jumlah |-> Null, pembiayaan_sisa |-> Null, pembiayaan_jenis |-> Null]

Init ==
    /\ req = [r \in Slots |-> Idle]
    /\ ledger = <<OldRow>>
    /\ saldo = [a \in Accounts |-> 1]
    /\ nextId = 1
    /\ UiAtRest

\* bodies of the requests that run together: a deposit, a loan payment under
\* the legacy key, a withdrawal above the balance, a body without anggota_id
SmallBodies ==
    LET deposit == [EmptyBody EXCEPT !.anggota_id = Some("a1"),
                        !.tipe_transaksi = Some("masuk"), !.source_type = Some("tabungan"),
                        !.jumlah = Some(1), !.jenis_tabungan_id = Some("j1")]
    IN  {deposit,
         [deposit EXCEPT !.source_type = Some("pembiayaan"), !.jenis_tabungan_id = Null,
                         !.tipe_transaksi = Some("keluar"), !.pinjaman_id = Some("p1")],
         [deposit EXCEPT !.anggota_id = Null]}

\* the id parameter of a DELETE: none, empty, the old row, the first row the
\* store creates, an id no row has
DeleteIds == {Null, Some(""), Some(IdOf(0)), Some(IdOf(1)), Some("tx-unknown")}

\* requests of the three handlers in every slot, running together
Next ==
    \E r \in Slots :
        \/ GetReceive(r)
        \/ StoreGetAll(r)
        \/ PostReceive(r, SmallBodies)
        \/ PostBadJson(r)
        \/ StoreAddOk(r)
        \/ StoreAddFail(r)
        \/ DeleteReceive(r, DeleteIds)
        \/ StoreSelect(r)
        \/ StoreDeleteOk(r)
        \/ StoreDeleteFail(r)

Spec == Init /\ [][Next]_vars

\* the store call the request in slot r waits for returns
Return(r) ==
    \/ StoreGetAll(r)
    \/ StoreAddOk(r)
    \/ StoreAddFail(r)
    \/ StoreSelect(r)
    \/ StoreDeleteOk(r)
    \/ StoreDeleteFail(r)

\* the requests of Spec, every store call of which returns: the handler that
\* awaits it is resumed
SpecLive == Spec /\ \A r \in Slots : WF_vars(Return(r))

\* one POST request, its body drawn from every JSON body over the keys POST reads
NextPost ==
    \/ PostReceive(1, Bodies)
    \/ PostBadJson(1)
    \/ StoreAddOk(1)
    \/ StoreAddFail(1)

SpecPost == Init /\ [][NextPost]_vars

\* the flat rows get_all_transactions can return for one transaction: the
\* ledger columns, and the columns of the member, of the savings account and
\* of the loan it joins
LedgerColumns ==
    [id : {IdOf(0)}, anggota_id : {"a1"}, tipe_transaksi : Directions,
     source_type : {Some("tabungan")}, deskripsi : {Null},
     jumlah : -MaxJumlah..MaxJumlah, sebelum : {1}, sesudah : 0..MaxSaldo,
     created_at : {0}, updated_at : {0}]

AnggotaColumns ==
    {[anggota_nama |-> Null, anggota_nomor_rekening |-> Null],
     [anggota_nama |-> Some(""), anggota_nomor_rekening |-> Some("02.1.0001")],
     [anggota_nama |-> Some("Anggota"), anggota_nomor_rekening |-> Some("02.1.0001")]}

TabunganColumns ==
    {[tabungan_id |-> Null, tabungan_saldo |-> Null, tabungan_jenis_id |-> Null,
      tabungan_jenis_nama |-> Null, tabungan_jenis_kode |-> Null]} \cup
    [tabungan_id : {Some("tab-j1")}, tabungan_saldo : {Some(0), Some(1)},
     tabungan_jenis_id : {Some("j1")}, tabungan_jenis_nama : {Null, Some("Simpanan")},
     tabungan_jenis_kode : {Some("SIM")}]

PembiayaanColumns ==
    {[pembiayaan_id |-> Null, pembiayaan_jumlah |-> Null, pembiayaan_sisa |-> Null,
      pembiayaan_jenis |-> Null]} \cup
    [pembiayaan_id : {Some("p1")}, pembiayaan_jumlah : {Null, Some(0), Some(2)},
     pembiayaan_sisa : {Some(0)}, pembiayaan_jenis : {Some("Murabahah")}]

StoreRows ==
    {l @@ a @@ t @@ p : l \in LedgerColumns, a \in AnggotaColumns,
                        t \in TabunganColumns, p \in PembiayaanColumns}

\* the ledger holds any one row the store can return
InitGet ==
    /\ req = [r \in Slots |-> Idle]
    /\ ledger \in {<<row>> : row \in StoreRows}
    /\ saldo = [a \in Accounts |-> 1]
    /\ nextId = 1
    /\ UiAtRest

\* one GET request
NextGet ==
    \/ GetReceive(1)
    \/ StoreGetAll(1)

SpecGet == InitGet /\ [][NextGet]_vars

MaxExtra == 2     \* rows the ledger can hold beyond Limit

\* a ledger of n rows with the ids tx1..txn, deposits and withdrawals in turn
Page(n) ==
    [i \in 1..n |->
        [OldRow EXCEPT !.id = IdOf(i),
                       !.tipe_transaksi = IF i % 2 = 0 THEN "keluar" ELSE "masuk"]]

\* the ledger holds any number of rows up to Limit + MaxExtra
InitPage ==
    /\ req = [r \in Slots |-> Idle]
    /\ ledger \in {Page(n) : n \in 0..(Limit + MaxExtra)}
    /\ saldo = [a \in Accounts |-> 1]
    /\ nextId = 1
    /\ UiAtRest

\* one GET request over a ledger of any length
SpecPage == InitPage /\ [][NextGet]_vars

\* the dialog of table akun, next to another administrator
NextAkun ==
    \/ OpenForm
    \/ Fill
    \/ CloseForm
    \/ Submit
    \/ CheckPhone
    \/ CheckAnggota
    \/ WriteOk
    \/ WriteFail
    \/ OtherInsert

SpecAkun == Init /\ [][NextAkun]_vars

\* the notifications page over a table that grows
NextNotif ==
    \/ \E k \in FetchSlots :
          \/ Refresh(k)
          \/ MarkAsRead(k)
          \/ QueryReturns(k)
    \/ Arrives

SpecNotif == Init /\ [][NextNotif]_vars

-----------------------------------------------------------------------------
(* Vocabulary of the properties *)

Done(r) == req[r].pc = "done"
Resp(r) == Val(req[r].resp)

\* a POST whose body was parsed
PostOf(r) == req[r].kind = "POST" /\ req[r].json

\* the store call `name` has been issued for the request in slot r
Issued(r, name) ==
    \/ req[r].pc = name
    \/ \E i \in DOMAIN req[r].calls : req[r].calls[i].call = name

\* the outcomes of the calls `name` the request in slot r has seen
Outcomes(r, name) ==
    {req[r].calls[i].out : i \in {j \in DOMAIN req[r].calls : req[r].calls[j].call = name}}

RequiredIndex == 1..Len(requiredFields)

\* key i of the required fields is not in the body
Omitted(body, i) == body[requiredFields[i]] = Null

\* key i is in the body with the value "" (a string field) or 0 (jumlah)
Blank(body, i) ==
    IF requiredFields[i] = "jumlah" THEN body.jumlah = Some(0)
    ELSE body[requiredFields[i]] = Some("")

RequiredMessage(i) == "Field '" \o requiredFields[i] \o "' is required"

-----------------------------------------------------------------------------
(* POST /transactions: validation *)

\* C2 as stated: a POST that omits a required field is answered 400 and the
\* message names the first omitted field.
C2_NamesFirstOmitted ==
    \A r \in Slots :
        (PostOf(r) /\ Done(r) /\ \E i \in RequiredIndex : Omitted(req[r].body, i)) =>
            /\ Resp(r).status = 400
            /\ \E i \in RequiredIndex :
                 /\ Omitted(req[r].body, i)
                 /\ \A j \in 1..(i - 1) : ~Omitted(req[r].body, j)
                 /\ Resp(r).error = Some(RequiredMessage(i))

\* C2 amended: a POST that omits a required field is answered 400 and the
\* message names the first required field that is omitted or blank ("" or 0).
C2_NamesFirstMissing ==
    \A r \in Slots :
        (PostOf(r) /\ Done(r) /\ \E i \in RequiredIndex : Omitted(req[r].body, i)) =>
            /\ Resp(r).status = 400
            /\ \E i \in RequiredIndex :
                 /\ Omitted(req[r].body, i) \/ Blank(req[r].body, i)
                 /\ \A j \in 1..(i - 1) :
                        ~Omitted(req[r].body, j) /\ ~Blank(req[r].body, j)
                 /\ Resp(r).error = Some(RequiredMessage(i))

\* a POST omitting tipe_transaksi and source_type has been answered with the
\* message about tipe_transaksi
C2_Witness ==
    \E r \in Slots :
        /\ PostOf(r) /\ Done(r)
        /\ ~Omitted(req[r].body, 1) /\ ~Blank(req[r].body, 1)
        /\ Omitted(req[r].body, 2) /\ Omitted(req[r].body, 3)
        /\ Resp(r).status = 400
        /\ Resp(r).error = Some("Field 'tipe_transaksi' is required")

\* C3 as stated: with the four required fields present, source_type "tabungan"
\* and no jenis_tabungan_id, the answer is 400 with the savings-type message;
\* with another source_type the savings-type rejection never happens.
C3_SavingsTypeRequired ==
    \A r \in Slots :
        (PostOf(r) /\ Done(r) /\ req[r].body.jenis_tabungan_id = Null
            /\ \A i \in RequiredIndex : ~Omitted(req[r].body, i)) =>
            IF req[r].body.source_type = Some("tabungan")
            THEN Resp(r).status = 400 /\ Resp(r).error = Some(JenisTabunganMessage)
            ELSE Resp(r).error # Some(JenisTabunganMessage)

\* C3 amended: with the four required fields present and not blank,
\* source_type "tabungan" and no jenis_tabungan_id, the answer is 400 with the
\* savings-type message and add_transaction is not called; with another
\* source_type the request goes on to add_transaction.
C3_SavingsTypeRequiredNonBlank ==
    \A r \in Slots :
        (PostOf(r) /\ req[r].body.jenis_tabungan_id = Null
            /\ \A i \in RequiredIndex :
                   ~Omitted(req[r].body, i) /\ ~Blank(req[r].body, i)) =>
            IF req[r].body.source_type = Some("tabungan")
            THEN /\ Done(r)
                 /\ Resp(r).status = 400
                 /\ Resp(r).error = Some(JenisTabunganMessage)
                 /\ ~Issued(r, "add_transaction")
            ELSE Issued(r, "add_transaction")

\* a savings POST without savings type has been rejected, all required fields given
C3_Witness ==
    \E r \in Slots :
        /\ PostOf(r) /\ Done(r)
        /\ \A i \in RequiredIndex : ~Omitted(req[r].body, i) /\ ~Blank(req[r].body, i)
        /\ req[r].body.source_type = Some("tabungan")
        /\ req[r].body.jenis_tabungan_id = Null
        /\ Resp(r).status = 400
        /\ Resp(r).error = Some(JenisTabunganMessage)

-----------------------------------------------------------------------------
(* POST /transactions: the store's answer *)

\* the body passes the validation as the spec states it: the four required
\* keys are there, and the savings type when source_type is "tabungan"
SpecValid(body) ==
    /\ \A i \in RequiredIndex : ~Omitted(body, i) /\ ~Blank(body, i)
    /\ body.source_type = Some("tabungan") => TruthyStr(body.jenis_tabungan_id)

\* add_transaction reported a failure: an rpc error, or success = false
AddFailed(out) ==
    /\ ~out.thrown
    /\ \/ out.error # Null
       \/ out.data # Null /\ ~Val(out.data).success

\* the message the store gave with the failure
AddFailureMessage(out) ==
    IF out.error # Null THEN "Failed to create transaction: " \o Val(out.error).message
    ELSE Val(Val(out.data).error)

\* C4: every failure add_transaction reports is answered 500 with the store's
\* message, and 400 is answered only for a missing required field or a missing
\* savings type.
C4_StoreFailureIs500 ==
    \A r \in Slots :
        (PostOf(r) /\ Done(r)) =>
            /\ \A out \in Outcomes(r, "add_transaction") :
                   AddFailed(out) =>
                       /\ Resp(r).status = 500
                       /\ Resp(r).error = Some(AddFailureMessage(out))
            /\ Resp(r).status = 400 => ~SpecValid(req[r].body)

\* C5: a successful store outcome is answered 200 with success = true and
\* data.id the store's transaction_id, and 200 is answered for nothing else.
C5_SuccessReturnsId ==
    \A r \in Slots :
        (PostOf(r) /\ Done(r)) =>
            /\ \A out \in Outcomes(r, "add_transaction") :
                   (~out.thrown /\ out.error = Null /\ out.data # Null
                        /\ Val(out.data).success) =>
                       /\ Resp(r).status = 200
                       /\ Resp(r).success
                       /\ Resp(r).id = Val(out.data).transaction_id
                       /\ Resp(r).id # Null
            /\ Resp(r).status = 200 =>
                   /\ ValidatePost(req[r].body) = Null
                   /\ \E out \in Outcomes(r, "add_transaction") :
                          out.data # Null /\ Val(out.data).success

\* a POST has been answered 200 with the id of the row the store created
C5_Witness ==
    \E r \in Slots :
        /\ PostOf(r) /\ Done(r)
        /\ Resp(r).status = 200 /\ Resp(r).success
        /\ Resp(r).id = Some(IdOf(1))
        /\ ledger[Len(ledger)].id = IdOf(1)

-----------------------------------------------------------------------------
(* POST /transactions: the loan reference *)

LoanIds == {"p1", "p2"}

\* C6: a loan id under pembiayaan_id alone, or under pinjaman_id alone, is the
\* loan id add_transaction is called with; with neither key it is null.
C6_LoanAlias ==
    \A r \in Slots :
        (PostOf(r) /\ Issued(r, "add_transaction")) =>
            LET b == req[r].body
                a == Val(req[r].args)
            IN  /\ \A x \in LoanIds :
                     /\ (b.pembiayaan_id = Some(x) /\ b.pinjaman_id = Null) =>
                            a.p_pembiayaan_id = Some(x)
                     /\ (b.pinjaman_id = Some(x) /\ b.pembiayaan_id = Null) =>
                            a.p_pembiayaan_id = Some(x)
                /\ (b.pembiayaan_id = Null /\ b.pinjaman_id = Null) =>
                       a.p_pembiayaan_id = Null

\* add_transaction has been called with the loan id given as pinjaman_id only
C6_Witness ==
    \E r \in Slots :
        /\ PostOf(r) /\ Issued(r, "add_transaction")
        /\ req[r].body.pembiayaan_id = Null
        /\ req[r].body.pinjaman_id = Some("p2")
        /\ Val(req[r].args).p_pembiayaan_id = Some("p2")

\* C7: with two different loan ids under pembiayaan_id and pinjaman_id, the
\* one under pembiayaan_id is the loan id add_transaction is called with.
C7_NewNamePreferred ==
    \A r \in Slots :
        (PostOf(r) /\ Issued(r, "add_transaction")) =>
            \A x, y \in LoanIds :
                (x # y /\ req[r].body.pembiayaan_id = Some(x)
                     /\ req[r].body.pinjaman_id = Some(y)) =>
                    Val(req[r].args).p_pembiayaan_id = Some(x)

\* add_transaction has been called for a body with both keys, with pembiayaan_id
C7_Witness ==
    \E r \in Slots :
        /\ PostOf(r) /\ Issued(r, "add_transaction")
        /\ req[r].body.pembiayaan_id = Some("p1")
        /\ req[r].body.pinjaman_id = Some("p2")
        /\ Val(req[r].args).p_pembiayaan_id = Some("p1")

-----------------------------------------------------------------------------
(* POST /transactions: invalid values *)

\* a required field carries a value outside its domain
InvalidValue(body) ==
    \/ TruthyStr(body.tipe_transaksi) /\ Val(body.tipe_transaksi) \notin Directions
    \/ TruthyStr(body.source_type) /\ Val(body.source_type) \notin SourceTypes
    \/ body.jumlah # Null /\ Val(body.jumlah) < 0

\* C8: a POST with an invalid value in a required field is answered 400 and
\* add_transaction is never called for it.
C8_InvalidValueRejected ==
    \A r \in Slots :
        (PostOf(r) /\ InvalidValue(req[r].body)) =>
            /\ ~Issued(r, "add_transaction")
            /\ Done(r) => Resp(r).status = 400

-----------------------------------------------------------------------------
(* GET /transactions: the sign of jumlah *)

\* the rows the store returned to the GET in slot r
RowsSeen(r) ==
    LET outs == {o \in Outcomes(r, "get_all_transactions") : ~o.thrown /\ o.data # Null}
    IN  IF outs = {} THEN <<>> ELSE Val((CHOOSE o \in outs : TRUE).data)

\* C1: every listed jumlah is +|stored jumlah| for "masuk" and -|stored jumlah|
\* for "keluar", whatever the sign of the stored jumlah.
C1_SignFollowsDirection ==
    \A r \in Slots :
        (req[r].kind = "GET" /\ Done(r) /\ Resp(r).status = 200) =>
            /\ Len(Resp(r).list) = Len(RowsSeen(r))
            /\ \A i \in DOMAIN RowsSeen(r) :
                 LET row == RowsSeen(r)[i]
                     mag == IF row.jumlah < 0 THEN -row.jumlah ELSE row.jumlah
                 IN  /\ row.tipe_transaksi = "masuk" => Resp(r).list[i].jumlah = mag
                     /\ row.tipe_transaksi = "keluar" => Resp(r).list[i].jumlah = -mag

\* a "masuk" row stored with a negative jumlah is listed with the positive one
C1_Witness ==
    \E r \in Slots :
        /\ req[r].kind = "GET" /\ Done(r) /\ Resp(r).status = 200
        /\ Len(RowsSeen(r)) = 1
        /\ RowsSeen(r)[1].tipe_transaksi = "masuk"
        /\ RowsSeen(r)[1].jumlah = -1
        /\ Resp(r).list[1].jumlah = 1

-----------------------------------------------------------------------------
(* DELETE /transactions: the id and the existence check *)

DeleteOf(r) == req[r].kind = "DELETE"

\* C9: a DELETE with no id parameter, or an empty one, is answered 400 and
\* issues neither the existence check nor the delete.
C9_MissingIdIs400 ==
    \A r \in Slots :
        (DeleteOf(r) /\ req[r].id \in {Null, Some("")}) =>
            /\ Done(r)
            /\ Resp(r).status = 400
            /\ ~Issued(r, "select")
            /\ ~Issued(r, "delete")

\* a DELETE with an empty id has been answered 400
C9_Witness ==
    \E r \in Slots :
        /\ DeleteOf(r) /\ Done(r)
        /\ req[r].id = Some("")
        /\ Resp(r).status = 400
        /\ req[r].calls = <<>>

\* the request in slot r goes from the existence check to its next position
SelectStep(r) == req[r].pc = "select" /\ req'[r].pc # "select"

\* the outcome the existence check of slot r ended with, in the next state
SelectOut(r) == req'[r].calls[Len(req'[r].calls)].out

\* C10: a DELETE of an id no ledger row has is answered 404 when the existence
\* check returns, without a delete and with the ledger as it was; and a delete
\* is issued only when the existence check has returned the row.
C10_AbsentIs404 ==
    [][\A r \in Slots :
          /\ (SelectStep(r) /\ ~InLedger(Val(req[r].id)) /\ ~SelectOut(r).thrown) =>
                 /\ req'[r].pc = "done"
                 /\ Val(req'[r].resp).status = 404
                 /\ ledger' = ledger
          /\ (req[r].pc # "delete" /\ req'[r].pc = "delete") =>
                 /\ SelectStep(r)
                 /\ InLedger(Val(req[r].id))
                 /\ SelectOut(r).data = Some(Selected(RowOf(Val(req[r].id))))]_vars

\* a DELETE of an unknown id has been answered 404 after the existence check
\* alone, the old row still in the ledger
C10_Witness ==
    \E r \in Slots :
        /\ DeleteOf(r) /\ Done(r)
        /\ req[r].id = Some("tx-unknown")
        /\ Resp(r).status = 404
        /\ Len(req[r].calls) = 1
        /\ req[r].calls[1].call = "select" /\ ~req[r].calls[1].found
        /\ ledger = <<OldRow>>

-----------------------------------------------------------------------------
(* DELETE /transactions: the answers *)

\* the calls `name` of the request in slot r, with outcome and ghost flag
Calls(r, name) ==
    {req[r].calls[i] : i \in {j \in DOMAIN req[r].calls : req[r].calls[j].call = name}}

\* C11: DELETE answers 404 only when the id is absent from the ledger; an
\* existence check that fails in the store for a row that exists is answered
\* 500, not 404.
C11_NotFoundOnlyWhenAbsent ==
    \A r \in Slots :
        (DeleteOf(r) /\ Done(r)) =>
            /\ Resp(r).status = 404 => \A c \in Calls(r, "select") : ~c.found
            /\ \A c \in Calls(r, "select") :
                   (c.found /\ ~c.out.thrown /\ c.out.error # Null) =>
                       Resp(r).status = 500

\* C12: when the existence check succeeds and the store's delete fails, the
\* answer is 500 with the store's message, details, hint and code; when the
\* delete succeeds the answer is 200 with success = true.
C12_DeleteOutcome ==
    \A r \in Slots :
        (DeleteOf(r) /\ Done(r)) =>
            \A c \in Calls(r, "delete") :
                /\ (~c.out.thrown /\ c.out.error # Null) =>
                       /\ Resp(r).status = 500
                       /\ Resp(r).error =
                              Some("Failed to delete transaction: "
                                       \o Val(c.out.error).message)
                       /\ Resp(r).diag.details = Val(c.out.error).details
                       /\ Resp(r).diag.hint = Val(c.out.error).hint
                       /\ Resp(r).diag.code = Val(c.out.error).code
                       /\ ~Resp(r).success
                /\ (~c.out.thrown /\ c.out.error = Null) =>
                       /\ Resp(r).status = 200
                       /\ Resp(r).success

\* a DELETE whose delete failed in the store has been answered 500 with the
\* store's code and details
C12_Witness ==
    \E r \in Slots :
        /\ DeleteOf(r) /\ Done(r)
        /\ \E c \in Calls(r, "select") : c.found /\ c.out.data # Null
        /\ \E c \in Calls(r, "delete") : c.out.error # Null
        /\ Resp(r).status = 500
        /\ Resp(r).diag.code = Some("23503")
        /\ Resp(r).diag.details = Some("Key is still referenced")

\* a DELETE of the id in the option `id` has been answered 200
Deleted(id) ==
    \E d \in Slots : DeleteOf(d) /\ Done(d) /\ req[d].id = id /\ Resp(d).status = 200

\* the store step of slot r: its handler position changes
StoreStep(r, name) == req[r].pc = name /\ req'[r].pc # name

\* the outcome the store call of slot r ended with, in the next state
StepOut(r) == req'[r].calls[Len(req'[r].calls)].out

\* C13: once a DELETE of X is answered 200 no ledger row has id X: a GET the
\* store answers afterwards does not list X and an existence check the store
\* answers afterwards ends in 404.
C13_DeletedStaysDeleted ==
    [][\A r \in Slots :
          /\ (DeleteOf(r) /\ req'[r].pc = "done" /\ Val(req'[r].resp).status = 200) =>
                 ~\E i \in DOMAIN ledger' : Some(ledger'[i].id) = req[r].id
          /\ (StoreStep(r, "get_all_transactions") /\ Val(req'[r].resp).status = 200) =>
                 \A i \in DOMAIN Val(req'[r].resp).list :
                     ~Deleted(Some(Val(req'[r].resp).list[i].id))
          /\ (StoreStep(r, "select") /\ Deleted(req[r].id) /\ ~StepOut(r).thrown) =>
                 /\ req'[r].pc = "done"
                 /\ Val(req'[r].resp).status = 404]_vars

\* the old row has been deleted with 200 and a second DELETE of it answered 404
C13_Witness ==
    \E d, r \in Slots :
        /\ d # r
        /\ DeleteOf(d) /\ Done(d) /\ req[d].id = Some(IdOf(0)) /\ Resp(d).status = 200
        /\ \E c \in Calls(d, "delete") : c.found
        /\ DeleteOf(r) /\ Done(r) /\ req[r].id = Some(IdOf(0)) /\ Resp(r).status = 404
        /\ ~InLedger(IdOf(0))

-----------------------------------------------------------------------------
(* GET /transactions: the list *)

GetOf(r) == req[r].kind = "GET"

\* the outcome of get_all_transactions for the finished GET in slot r
GetOut(r) == CHOOSE o \in Outcomes(r, "get_all_transactions") : TRUE

\* C14: when the store call succeeds GET answers 200 with at most Limit
\* entries, one per row the store returned and in the same order; an empty or
\* null result gives an empty array.
C14_OneEntryPerRow ==
    \A r \in Slots :
        (GetOf(r) /\ Done(r) /\ ~GetOut(r).thrown /\ GetOut(r).error = Null) =>
            /\ Resp(r).status = 200
            /\ Len(Resp(r).list) <= Limit
            /\ Len(Resp(r).list) = Len(RowsSeen(r))
            /\ \A i \in DOMAIN RowsSeen(r) : Resp(r).list[i].id = RowsSeen(r)[i].id
            /\ GetOut(r).data # Null =>
                   /\ Len(RowsSeen(r)) = Min(Len(ledger), Limit)
                   /\ \A i \in DOMAIN RowsSeen(r) : RowsSeen(r)[i] = ledger[i]
            /\ (GetOut(r).data = Null \/ GetOut(r).data = Some(<<>>)) =>
                   Resp(r).list = <<>>

\* a GET over a ledger of Limit + 1 rows has listed the first Limit rows
C14_Witness ==
    \E r \in Slots :
        /\ GetOf(r) /\ Done(r) /\ Resp(r).status = 200
        /\ Len(ledger) = Limit + 1
        /\ Len(Resp(r).list) = Limit
        /\ Resp(r).list[1].id = IdOf(1)
        /\ Resp(r).list[Limit].id = IdOf(Limit)

\* C15: when get_all_transactions returns an error GET answers 500 with the
\* store's message and no list.
C15_GetStoreErrorIs500 ==
    \A r \in Slots :
        (GetOf(r) /\ Done(r) /\ ~GetOut(r).thrown /\ GetOut(r).error # Null) =>
            /\ Resp(r).status = 500
            /\ Resp(r).error = Some(Val(GetOut(r).error).message)
            /\ Resp(r).list = <<>>

\* a GET has been answered 500 with the message of the store
C15_Witness ==
    \E r \in Slots :
        /\ GetOf(r) /\ Done(r)
        /\ GetOut(r).error # Null
        /\ Resp(r).status = 500
        /\ Resp(r).error = Some("permission denied for function get_all_transactions")

-----------------------------------------------------------------------------
(* GET /transactions: the nested objects *)

\* slot r holds a GET answered 200 from the rows the store returned
Listed(r) == GetOf(r) /\ Done(r) /\ Resp(r).status = 200 /\ RowsSeen(r) # <<>>

\* C16: an entry of a transaction without linked loan (pembiayaan_id null)
\* has pinjaman null.
C16_NoLoanIsNull ==
    \A r \in Slots :
        Listed(r) =>
            \A i \in DOMAIN RowsSeen(r) :
                RowsSeen(r)[i].pembiayaan_id = Null => Resp(r).list[i].pinjaman = Null

\* a savings row without loan has been listed with a savings object and pinjaman null
C16_Witness ==
    \E r \in Slots :
        /\ Listed(r)
        /\ RowsSeen(r)[1].pembiayaan_id = Null
        /\ RowsSeen(r)[1].tabungan_id # Null
        /\ Resp(r).list[1].pinjaman = Null
        /\ Resp(r).list[1].tabungan # Null

\* C17: anggota of an entry is an object exactly when the row carries a member
\* name, and null otherwise.
C17_AnggotaIffName ==
    \A r \in Slots :
        Listed(r) =>
            \A i \in DOMAIN RowsSeen(r) :
                LET named == RowsSeen(r)[i].anggota_nama \notin {Null, Some("")}
                    a == Resp(r).list[i].anggota
                IN  /\ named => a # Null /\ Val(a).nama = RowsSeen(r)[i].anggota_nama
                    /\ ~named => a = Null

\* a row with a member name has been listed with the member object
C17_Witness ==
    \E r \in Slots :
        /\ Listed(r)
        /\ RowsSeen(r)[1].anggota_nama = Some("Anggota")
        /\ Resp(r).list[1].anggota =
               Some([nama |-> Some("Anggota"), nomor_rekening |-> Some("02.1.0001")])

\* C18: tabungan of an entry is an object only if the row has a tabungan_id,
\* and its jenis_tabungan is an object only if the row has a savings-type
\* name; otherwise the field is null.
C18_TabunganOnlyIfLinked ==
    \A r \in Slots :
        Listed(r) =>
            \A i \in DOMAIN RowsSeen(r) :
                LET row == RowsSeen(r)[i]
                    t == Resp(r).list[i].tabungan
                IN  /\ t # Null => row.tabungan_id # Null
                    /\ row.tabungan_id = Null => t = Null
                    /\ t # Null =>
                           /\ Val(t).jenis_tabungan # Null => row.tabungan_jenis_nama # Null
                           /\ row.tabungan_jenis_nama = Null => Val(t).jenis_tabungan = Null

\* a savings row without savings-type name has been listed with a savings
\* object whose jenis_tabungan is null
C18_Witness ==
    \E r \in Slots :
        /\ Listed(r)
        /\ RowsSeen(r)[1].tabungan_id # Null
        /\ RowsSeen(r)[1].tabungan_jenis_nama = Null
        /\ Resp(r).list[1].tabungan # Null
        /\ Val(Resp(r).list[1].tabungan).jenis_tabungan = Null

BlankStr(o) == o = Null \/ o = Some("")

\* C19: no entry carries an anggota, tabungan, jenis_tabungan or pinjaman
\* object whose fields are all null or blank.
C19_NoEmptyObject ==
    \A r \in Slots :
        Listed(r) =>
            \A i \in DOMAIN Resp(r).list :
                LET e == Resp(r).list[i]
                IN  /\ e.anggota # Null =>
                           ~(BlankStr(Val(e.anggota).nama)
                               /\ BlankStr(Val(e.anggota).nomor_rekening))
                    /\ e.tabungan # Null =>
                           /\ ~(Val(e.tabungan).saldo = Null
                                  /\ BlankStr(Val(e.tabungan).jenis_tabungan_id)
                                  /\ Val(e.tabungan).jenis_tabungan = Null)
                           /\ Val(e.tabungan).jenis_tabungan # Null =>
                                  ~(BlankStr(Val(Val(e.tabungan).jenis_tabungan).nama)
                                      /\ BlankStr(Val(Val(e.tabungan).jenis_tabungan).kode))
                    /\ e.pinjaman # Null =>
                           ~(BlankStr(Val(e.pinjaman).id)
                               /\ Val(e.pinjaman).jumlah = Null
                               /\ Val(e.pinjaman).sisa_pembayaran = Null
                               /\ BlankStr(Val(e.pinjaman).jenis_pinjaman))

\* a row without member, savings account and loan has been listed with the
\* three objects null
C19_Witness ==
    \E r \in Slots :
        /\ Listed(r)
        /\ RowsSeen(r)[1].anggota_nama = Null
        /\ RowsSeen(r)[1].tabungan_id = Null
        /\ RowsSeen(r)[1].pembiayaan_id = Null
        /\ Resp(r).list[1].anggota = Null
        /\ Resp(r).list[1].tabungan = Null
        /\ Resp(r).list[1].pinjaman = Null

-----------------------------------------------------------------------------
(* Unexpected failures *)

\* a store call of the request in slot r resolved with neither data nor error
Neither(c) == ~c.out.thrown /\ c.out.error = Null /\ c.out.data = Null

AnyCall(r) == {req[r].calls[i] : i \in DOMAIN req[r].calls}

FixedMessage == "An unexpected error occurred"

\* C20 as stated: a body that is not JSON, a store client that throws and a
\* store call that returns neither data nor error are answered 500 with the
\* fixed message, in the three handlers.
C20_UnexpectedIs500 ==
    \A r \in Slots :
        (Done(r) /\ (~req[r].json \/ \E c \in AnyCall(r) : c.out.thrown \/ Neither(c))) =>
            /\ Resp(r).status = 500
            /\ Resp(r).error = Some(FixedMessage)

\* C20 amended: a body that is not JSON, a store client that throws and, in
\* POST, an add_transaction that returns neither data nor error are answered
\* 500 with the fixed message and nothing else; a GET whose rpc returns
\* neither is answered 200 with an empty list, and a DELETE whose existence
\* check returns neither is answered 404.
C20_ThrownIs500 ==
    \A r \in Slots :
        Done(r) =>
            /\ (~req[r].json
                  \/ (\E c \in AnyCall(r) : c.out.thrown)
                  \/ (\E c \in Calls(r, "add_transaction") : Neither(c))) =>
                   /\ Resp(r).status = 500
                   /\ Resp(r).error = Some(FixedMessage)
                   /\ Resp(r).list = <<>> /\ Resp(r).diag = NoDiag
                   /\ Resp(r).id = Null /\ ~Resp(r).success
            /\ (\E c \in Calls(r, "get_all_transactions") : Neither(c)) =>
                   Resp(r).status = 200 /\ Resp(r).list = <<>>
            /\ (\E c \in Calls(r, "select") : Neither(c)) =>
                   Resp(r).status = 404 /\ Resp(r).error = Some("Transaction not found")

\* a POST whose add_transaction returned neither data nor error has been
\* answered 500 with the fixed message
C20_Witness ==
    \E r \in Slots :
        /\ PostOf(r) /\ Done(r)
        /\ \E c \in Calls(r, "add_transaction") : Neither(c)
        /\ Resp(r).status = 500
        /\ Resp(r).error = Some(FixedMessage)

-----------------------------------------------------------------------------
(* POST /transactions: validation comes before the store *)

\* the messages of the validation
ValidationMessages == {RequiredMessage(i) : i \in RequiredIndex} \cup {JenisTabunganMessage}

\* the step answers the POST in slot r
PostAnswered(r) == req[r].pc # "done" /\ req'[r].pc = "done" /\ req'[r].kind = "POST" /\ req'[r].json

\* C21: a POST whose body lacks a required field, or the savings type of a
\* savings transaction, is answered 400 by the step that receives it: no
\* add_transaction call has been issued for it and the step leaves the ledger
\* and every balance as they were; and a 400 that carries a message of the
\* validation is the answer of a request that made no store call.
C21_ValidationFailsFast ==
    [][\A r \in Slots :
          PostAnswered(r) =>
              /\ ~SpecValid(req'[r].body) =>
                    /\ Val(req'[r].resp).status = 400
                    /\ Val(req'[r].resp).error \in {Some(m) : m \in ValidationMessages}
                    /\ req[r].pc = "idle"
                    /\ req'[r].calls = <<>> /\ req'[r].args = Null
                    /\ ledger' = ledger /\ saldo' = saldo /\ nextId' = nextId
              /\ (/\ Val(req'[r].resp).status = 400
                  /\ Val(req'[r].resp).error \in {Some(m) : m \in ValidationMessages}) =>
                    /\ req'[r].calls = <<>>
                    /\ ledger' = ledger /\ saldo' = saldo]_vars

\* a savings deposit without its savings type has been answered 400 with no
\* store call, the ledger and the balances being those of the start
C21_Witness ==
    \E r \in Slots :
        /\ PostOf(r) /\ Done(r)
        /\ \A i \in RequiredIndex : ~Omitted(req[r].body, i) /\ ~Blank(req[r].body, i)
        /\ req[r].body.source_type = Some("tabungan")
        /\ req[r].body.jenis_tabungan_id = Null
        /\ Resp(r).status = 400
        /\ ~Issued(r, "add_transaction")
        /\ ledger = <<OldRow>> /\ saldo = [a \in Accounts |-> 1]

-----------------------------------------------------------------------------
(* POST /transactions: the account a forwarded transaction references *)

\* C22: every add_transaction call the gateway issues references one
\* sub-ledger account: at most one of p_jenis_tabungan_id and p_pembiayaan_id
\* is non-null, and the one that is set matches p_source_type.
C22_OneSubLedgerAccount ==
    \A r \in Slots :
        (PostOf(r) /\ Issued(r, "add_transaction")) =>
            LET a == Val(req[r].args)
            IN  /\ ~(a.p_jenis_tabungan_id # Null /\ a.p_pembiayaan_id # Null)
                /\ a.p_jenis_tabungan_id # Null => a.p_source_type = Some("tabungan")
                /\ a.p_pembiayaan_id # Null => a.p_source_type = Some("pembiayaan")

-----------------------------------------------------------------------------
(* GET /transactions: balance snapshots of the listed view *)

-----------------------------------------------------------------------------
(* Balances are the store's *)

\* the step is one of the request in slot r
StepOf(r) == req'[r] # req[r]

\* the ledger without the rows of this id
Without(rows, id) ==
    LET Keep(row) == row.id # id
    IN  SelectSeq(rows, Keep)

\* C24: the gateway writes no balance: the step of a DELETE that is answered
\* 200 removes the row of its id from the ledger, nothing else, and leaves
\* every balance at the value it had (the movement is not reversed); every
\* other step of a DELETE and every step of a GET change neither the ledger
\* nor a balance.
C24_GatewayWritesNoBalance ==
    [][\A r \in Slots :
          (StepOf(r) /\ req'[r].kind \in {"GET", "DELETE"}) =>
              /\ saldo' = saldo
              /\ nextId' = nextId
              /\ IF req'[r].kind = "DELETE" /\ StoreStep(r, "delete")
                    /\ Val(req'[r].resp).status = 200
                 THEN ledger' = Without(ledger, Val(req[r].id))
                 ELSE ledger' = ledger]_vars

\* the DELETE of the deposit of the start has been answered 200: the row is
\* gone and the savings balance still holds the deposit
C24_Witness ==
    /\ Deleted(Some(IdOf(0)))
    /\ ~InLedger(IdOf(0))
    /\ OldRow.sesudah - OldRow.sebelum = 1
    /\ saldo["j1"] = 1
    /\ nextId = 1

-----------------------------------------------------------------------------
(* Store round trips *)

\* the store calls the request in slot r has issued, the pending one included
IssuedCalls(r) ==
    [i \in DOMAIN req[r].calls |-> req[r].calls[i].call]
        \o (IF req[r].pc \in {"idle", "done"} THEN <<>> ELSE <<req[r].pc>>)

\* the call failed: the client threw, or it reported an error
CallFailed(c) == c.out.thrown \/ c.out.error # Null

\* C25: a POST issues at most one add_transaction call, a GET at most one
\* get_all_transactions call, a DELETE at most one existence fetch followed by
\* at most one delete; and once a store call of a request has failed the
\* request issues no further store call.
C25_BoundedRoundTrips ==
    \A r \in Slots :
        /\ req[r].kind = "POST" => IssuedCalls(r) \in {<<>>, <<"add_transaction">>}
        /\ req[r].kind = "GET" => IssuedCalls(r) \in {<<>>, <<"get_all_transactions">>}
        /\ req[r].kind = "DELETE" =>
               IssuedCalls(r) \in {<<>>, <<"select">>, <<"select", "delete">>}
        /\ \A i \in DOMAIN req[r].calls :
               CallFailed(req[r].calls[i]) => i = Len(IssuedCalls(r))

\* a DELETE made its two round trips and no more, the second one failing, and
\* another DELETE stopped at its failed existence fetch
C25_Witness ==
    \E r, d \in Slots :
        /\ DeleteOf(r) /\ Done(r)
        /\ IssuedCalls(r) = <<"select", "delete">>
        /\ CallFailed(req[r].calls[2])
        /\ DeleteOf(d) /\ Done(d)
        /\ IssuedCalls(d) = <<"select">>
        /\ CallFailed(req[d].calls[1])

-----------------------------------------------------------------------------
(* Every request is answered *)

Statuses == {200, 400, 404, 500}

\* C26: every GET, POST or DELETE whose store calls return is answered in the
\* end, and answered once: the request that has been received reaches its
\* response, the response has a status among 200, 400, 404 and 500, no request
\* holds a response before it is done, and a response given is never replaced.
C26_EveryRequestAnswered ==
    /\ \A r \in Slots : (req[r].pc # "idle") ~> Done(r)
    /\ [](\A r \in Slots :
            /\ Done(r) => req[r].resp # Null /\ Resp(r).status \in Statuses
            /\ ~Done(r) => req[r].resp = Null)
    /\ [][\A r \in Slots : Done(r) => req'[r] = req[r]]_vars

\* the requests of both slots have been answered, one of them on the failure
\* of its second store call and one with 200
C26_Witness ==
    \E r, d \in Slots :
        /\ DeleteOf(r) /\ Done(r) /\ Len(req[r].calls) = 2
        /\ CallFailed(req[r].calls[2])
        /\ Resp(r).status = 500
        /\ Done(d) /\ Resp(d).status = 200

-----------------------------------------------------------------------------
(* DELETE /transactions: two requests for one row *)

\* the row of the request in slot r was in the ledger when the store
\* executed its delete
FoundAtDelete(r) == \E c \in Calls(r, "delete") : c.found

\* C27: a DELETE is answered 200 only if the row was there when its own
\* delete was executed: of two DELETEs for one id that both made their
\* existence check before either delete, at most one is answered 200.
C27_OneDeleteWins ==
    \A r \in Slots :
        /\ (DeleteOf(r) /\ Done(r) /\ Resp(r).status = 200) => FoundAtDelete(r)
        /\ \A d \in Slots \ {r} :
               (/\ DeleteOf(r) /\ Done(r) /\ DeleteOf(d) /\ Done(d)
                /\ req[r].id = req[d].id
                /\ Resp(r).status = 200) => Resp(d).status # 200

-----------------------------------------------------------------------------
(* GET /transactions: the loan of a listed transaction *)

\* C28: every row with a linked loan (pembiayaan_id set, with the joined loan
\* columns) is listed with a pinjaman object whose id is the row's
\* pembiayaan_id, also when pembiayaan_jumlah is 0; and no listed pinjaman is
\* an object with a null id.
C28_LinkedLoanIsListed ==
    \A r \in Slots :
        (GetOf(r) /\ Done(r) /\ Resp(r).status = 200) =>
            \A i \in DOMAIN RowsSeen(r) :
                LET row == RowsSeen(r)[i]
                    e == Resp(r).list[i]
                IN  /\ (row.pembiayaan_id # Null /\ row.pembiayaan_jumlah # Null) =>
                          /\ e.pinjaman # Null
                          /\ Val(e.pinjaman).id = row.pembiayaan_id
                    /\ e.pinjaman # Null => Val(e.pinjaman).id # Null

-----------------------------------------------------------------------------
(* EditAkunForm: a conflict found by a pre-check stops the submission *)

\* the calls `name` of the submission the form last ran
FormCalls(name) == {form.calls[i] : i \in {j \in DOMAIN form.calls : form.calls[j].call = name}}

\* a pre-check of the submission returned a row
ConflictFound(name) ==
    \E c \in FormCalls(name) : ~c.out.thrown /\ c.out.error = Null /\ c.out.data # Null

\* the submission has issued an insert or an update
WriteIssued == form.pc = "write" \/ FormCalls("insert") # {} \/ FormCalls("update") # {}

FieldsInError == {e.field : e \in form.errors}

\* C29: onSubmit issues no insert and no update on table akun once a
\* uniqueness pre-check has found a conflict: in create mode an account with
\* the same nomor_telepon, in either mode another account linked to the
\* anggota_id newly chosen; the field in conflict carries an error, the
\* submission has ended and isSubmitting is false again.
C29_ConflictStopsSubmit ==
    /\ ConflictFound("check_phone") =>
          /\ form.akun = Null
          /\ ~WriteIssued
          /\ FormCalls("check_anggota") = {}
          /\ "nomor_telepon" \in FieldsInError
          /\ form.pc = "idle" /\ ~form.isSubmitting
    /\ ConflictFound("check_anggota") =>
          /\ ~WriteIssued
          /\ "anggota_id" \in FieldsInError
          /\ form.pc = "idle" /\ ~form.isSubmitting
    /\ \A c \in FormCalls("check_phone") \cup FormCalls("check_anggota") :
          (c.found /\ ~c.out.thrown /\ c.out.error = Null) => c.out.data # Null

\* in edit mode the member pre-check found the member linked to another
\* account: no update was issued and the field carries the error
C29_Witness ==
    /\ form.akun # Null
    /\ ConflictFound("check_anggota")
    /\ form.values.anggota_id # Val(form.akun).anggota_id
    /\ \E row \in akunTable :
          row.id # Val(form.akun).id /\ row.anggota_id = form.values.anggota_id
    /\ form.errors = {AnggotaError}
    /\ ~form.isSubmitting
    /\ FormCalls("update") = {}

\* in create mode the phone pre-check found the number taken
C29_WitnessPhone ==
    /\ form.akun = Null
    /\ ConflictFound("check_phone")
    /\ form.errors = {PhoneError}
    /\ ~form.isSubmitting

-----------------------------------------------------------------------------
(* NotificationsPage: the four lists change together *)

Lists(p) ==
    <<p.notifications, p.unreadNotifications, p.transactionNotifications,
      p.systemNotifications>>

\* the call of fetchNotifications in slot k ends with this step
FetchEnds(k) == page.fetch[k].pc # "idle" /\ page'.fetch[k].pc = "idle"

\* C30: fetchNotifications sets its four lists together or not at all: the
\* step that ends a call after four queries that succeeded sets each list to
\* the answer of its query; the step that ends a call on a failed query
\* changes no list; no other step changes a list; and loading is false when
\* the call has ended, either way.
C30_ListsSetTogether ==
    [][/\ \A k \in FetchSlots :
            FetchEnds(k) =>
                LET got == page.fetch[k].got
                IN  /\ ~page'.loading
                    /\ IF page'.fetch[k].failed
                       THEN Lists(page') = Lists(page) /\ page'.toast = Some(LoadToast)
                       ELSE /\ Len(got) = Len(Queries) - 1
                            /\ \A i \in DOMAIN got : ~QueryFailed(got[i])
                            /\ \A i \in DOMAIN got : Lists(page')[i] = OrEmpty(got[i])
                            /\ \E out \in QueryOutcomes("system") :
                                  ~QueryFailed(out) /\ Lists(page')[4] = OrEmpty(out)
       /\ Lists(page') # Lists(page) =>
            \E k \in FetchSlots : FetchEnds(k) /\ ~page'.fetch[k].failed]_vars

\* a call ended on the failure of a query after the row on the page was
\* marked as read in the store: the lists are those of the call before, which
\* show the row as unread, and loading is false
C30_Witness ==
    \E k \in FetchSlots :
        /\ page.fetch[k].pc = "idle" /\ page.fetch[k].failed
        /\ \A j \in FetchSlots : page.fetch[j].pc = "idle"
        /\ notifikasi # {} /\ \A row \in notifikasi : row.is_read
        /\ Len(page.notifications) = Cardinality(notifikasi)
        /\ page.unreadNotifications = page.notifications
        /\ ~page.loading

====
